---- MODULE Spec2Model ----
(***************************************************************************)
(* Model of the kcptun client (src/client/main.go): the acceptor loop with *)
(* its pool of mux sessions, the scavenger, the relay started for every    *)
(* accepted connection and the control FIFO reader.                        *)
(*                                                                         *)
(* Sessions and their transports are created in pairs by createConn, so    *)
(* one identifier 1..MaxSessions names both; 0 is nil.  Time is counted in *)
(* whole seconds.                                                          *)
(***************************************************************************)
EXTENDS Integers, Sequences, FiniteSets, TLC

VARIABLES
    config,        \* the Config record read at startup
    mainPc,        \* "init", "running", "exited" (log.Fatal) or "panicked"
    now,           \* time.Now(), in seconds
    accPc,         \* position of the acceptor goroutine
    rr,            \* uint16 round-robin counter
    idx,           \* slot chosen for the connection being served
    newConn,       \* result of createConn waiting to be stored (0: none)
    wake,          \* end of waitConn's time.Sleep
    muxes,         \* slot -> [session, expiryDate]
    connes,        \* slot -> transport
    nextId,        \* next fresh session/transport identifier
    closed,        \* sessions for which IsClosed() is true
    fec,           \* transport -> <<datashard, parityshard>>
    nodelay,       \* transport -> the tuple SetNoDelay was called with
    pending,       \* session -> handleClient goroutines not yet at OpenStream
    open,          \* session -> streams being relayed
    scavPc,        \* position of the scavenger goroutine
    chScavenger,   \* the buffered channel
    sessionList,   \* the scavenger's list
    accepted,      \* history: number of connections accepted
    handed,        \* history: session -> when and with which expiry it was
                   \* sent on chScavenger (k = -1: never)
    retired,       \* history: sessions replaced in their slot by a refill
    waitCalls,     \* history: slot -> calls of waitConn
    scavClosed,    \* history: sessions on which the scavenger called Close
    seen,          \* history: fec commands read when this connection was
                   \* accepted
    born,          \* history: session -> time at which createConn made it
    fifoPc,        \* position of the FIFO reader goroutine
    fifoDs,        \* its ds
    fifoPs,        \* its ps
    fifoAddr,      \* its loop variable addr
    fifoLine,      \* history: the last line it read
    fifoLog,       \* history: what it logged for that line
    linesRead,     \* history: number of lines read
    cmds,          \* history: the shard counts of the fec commands that
                   \* differed from the config when read
    pumpPc,        \* the relay of the first handleClient goroutine: position
                   \* of "h" (streamCopy(p2, p1), in handleClient itself) and
                   \* of "g" (go streamCopy(p1, p2))
    hSess,         \* its session
    p1,            \* its TCP connection: "none", "open", "closed"
    p2,            \* its stream: "none", "open", "closed"
    p1Eof,         \* reads of p1 return EOF or an error (the local peer)
    p2Eof          \* reads of p2 return EOF or an error (the remote peer)

accVars    == <<accPc, rr, idx, newConn, wake>>
poolVars   == <<muxes, connes>>
sessVars   == <<nextId, closed, fec, nodelay>>
streamVars == <<pending, open>>
scavVars   == <<scavPc, chScavenger, sessionList>>
histVars   == <<accepted, handed, retired, waitCalls, scavClosed, seen, born>>
fifoVars   == <<fifoPc, fifoDs, fifoPs, fifoAddr, fifoLine, fifoLog, linesRead,
                cmds>>
relayVars  == <<pumpPc, hSess, p1, p2, p1Eof, p2Eof>>
vars == <<config, mainPc, now, accVars, poolVars, sessVars, streamVars,
          scavVars, histVars, fifoVars, relayVars>>

----------------------------------------------------------------------------
(* Bounds of the model *)
MaxSessions == 3
MaxAccepts == 2
MaxTime == 3
MaxAcceptsRR == 65540
MaxLines == 2
MaxChanAccepts == 130

(* Program constants *)
maxSmuxVer == 2
ChanCap == 128
Uint16 == 65536

Sessions == 1..MaxSessions

----------------------------------------------------------------------------
(* numconn := uint16(config.Conn) *)
NumConn(c) == c.Conn % Uint16

Slots == 0 .. NumConn(config) - 1

(* dial(&config, block): the transport is made with the shard counts the
   config holds at the time of the call *)
DialFec == <<config.DataShard, config.ParityShard>>

(* smux.VerifyConfig as called by createConn: the version must be 1 or 2 *)
VerifyConfig(c) == c.SmuxVer = 1 \/ c.SmuxVer = 2

(* session.IsClosed() *)
IsClosed(s) == s \in closed

(* time.Now().After(t) *)
After(t) == now > t

(* mutant: the expiry test without its AutoExpire > 0 guard *)
IsStaleUnguarded(m) ==
    \/ m.session = 0
    \/ IsClosed(m.session)
    \/ After(m.expiryDate)

(* mutant: the expiry test forgotten *)
IsStaleNoExpiry(m) ==
    \/ m.session = 0
    \/ IsClosed(m.session)

(* the refill condition of the acceptor loop *)
IsStale(m) ==
    \/ m.session = 0
    \/ IsClosed(m.session)
    \/ (config.AutoExpire > 0 /\ After(m.expiryDate))

(* time.Now().Add(time.Duration(config.AutoExpire) * time.Second) *)
ExpiryDate == now + config.AutoExpire

(* mutant: a refill that renews the expiry of a session already there *)
RefilledKeepsOld(old, s) ==
    [session |-> IF old.session = 0 THEN s ELSE old.session,
     expiryDate |-> ExpiryDate]

(* what a refill stores in the slot: the new session and its expiry *)
Refilled(old, s) == [session |-> s, expiryDate |-> ExpiryDate]

(* mutant: the transport waitConn returned is dropped *)
StoredConnKeepsOld(old, conn) == old

(* connes[idx] after the assignment: the transport waitConn returned *)
StoredConn(old, conn) == conn

(* mutant: a refill that closes the session it replaces *)
AfterRefillClosesOld(old) == closed \cup ({old} \ {0})

(* the closed sessions after a refill of a slot that held old: the
   assignment drops the reference and calls nothing on the old session *)
AfterRefill(old) == closed

(* mutant: the hand-over guarded by >= 0 *)
HandOverAlways == config.AutoExpire >= 0

(* if config.AutoExpire > 0: the new session goes to the scavenger *)
HandOver == config.AutoExpire > 0

(* the session handed to handleClient *)
DispatchTarget == muxes[idx].session

(* mutant: the counter kept in an int, which does not wrap *)
IncRRWide(r) == r + 1

(* rr++ on a uint16 *)
IncRR(r) == (r + 1) % Uint16

(* mutant: the grace window forgotten *)
ScavEntryNoGrace(item) ==
    [session |-> item.session, expiryDate |-> item.expiryDate]

(* the entry the scavenger appends for a received item *)
ScavEntry(item) ==
    [session |-> item.session,
     expiryDate |-> item.expiryDate + config.ScavengeTTL]

(* mutant: the scavenger's expiry test forgotten *)
TtlPassedNever(s) == FALSE

(* mutant: an entry is due at its expiry already *)
TtlPassedEarly(s) == now >= s.expiryDate

(* the scavenger's test for closing an entry that is not closed *)
TtlPassed(s) == After(s.expiryDate)

Running == mainPc = "running"

----------------------------------------------------------------------------
(* the state when main has read its config, with S the identifiers that
   createConn can give to the sessions it makes *)
InitOver(Confs, S) ==
    /\ config \in Confs
    /\ mainPc = "init"
    /\ now = 0
    /\ accPc = "accept"
    /\ rr = 0
    /\ idx = 0
    /\ newConn = 0
    /\ wake = 0
    /\ muxes = [i \in Slots |-> [session |-> 0, expiryDate |-> 0]]
    /\ connes = [i \in Slots |-> 0]
    /\ nextId = 1
    /\ closed = {}
    /\ fec = [s \in S |-> <<0, 0>>]
    /\ nodelay = [s \in S |-> <<0, 0, 0, 0>>]
    /\ pending = [s \in S |-> 0]
    /\ open = [s \in S |-> 0]
    /\ scavPc = "start"
    /\ chScavenger = <<>>
    /\ sessionList = <<>>
    /\ accepted = 0
    /\ handed = [s \in S |-> [k |-> -1, expiryDate |-> 0]]
    /\ retired = {}
    /\ waitCalls = [i \in Slots |-> 0]
    /\ scavClosed = {}
    /\ seen = 0
    /\ born = [s \in S |-> 0]
    /\ fifoPc = "read"
    /\ fifoDs = 0
    /\ fifoPs = 0
    /\ fifoAddr = 0
    /\ fifoLine = <<>>
    /\ fifoLog = "none"
    /\ linesRead = 0
    /\ cmds = <<>>
    /\ pumpPc = [w \in {"h", "g"} |-> "none"]
    /\ hSess = 0
    /\ p1 = "none"
    /\ p2 = "none"
    /\ p1Eof = FALSE
    /\ p2Eof = FALSE

InitWith(Confs) == InitOver(Confs, Sessions)

(* (config.NoDelay, config.Interval, config.Resend, config.NoCongestion) *)
NoDelayTuple(c) == <<c.NoDelay, c.Interval, c.Resend, c.NoCongestion>>

(* mutant: the switch on the mode left out *)
ApplyModeKeepsManual(c) == c

(* switch config.Mode: the four profiles overwrite the tuple, every other
   mode leaves it *)
ApplyMode(c) ==
    CASE c.Mode = "normal" ->
           [c EXCEPT !.NoDelay = 0, !.Interval = 40, !.Resend = 2,
                     !.NoCongestion = 1]
      [] c.Mode = "fast" ->
           [c EXCEPT !.NoDelay = 0, !.Interval = 30, !.Resend = 2,
                     !.NoCongestion = 1]
      [] c.Mode = "fast2" ->
           [c EXCEPT !.NoDelay = 1, !.Interval = 20, !.Resend = 2,
                     !.NoCongestion = 1]
      [] c.Mode = "fast3" ->
           [c EXCEPT !.NoDelay = 1, !.Interval = 10, !.Resend = 2,
                     !.NoCongestion = 1]
      [] OTHER -> c

(* main: the mode switch and the parameters check, then the goroutines are
   started *)
Startup ==
    /\ mainPc = "init"
    /\ config' = ApplyMode(config)
    /\ mainPc' = IF config.SmuxVer > maxSmuxVer THEN "exited" ELSE "running"
    /\ UNCHANGED <<fifoVars, relayVars,
                   now, accVars, poolVars, sessVars, streamVars,
                   scavVars, histVars>>

(* listener.AcceptTCP(), idx := rr % numconn and the staleness test *)
AcceptTCP(limit) ==
    /\ Running
    /\ accPc = "accept"
    /\ accepted < limit
    /\ accepted' = accepted + 1
    /\ IF NumConn(config) = 0
       THEN /\ mainPc' = "panicked"
            /\ UNCHANGED <<accPc, idx, waitCalls>>
       ELSE LET i == rr % NumConn(config) IN
            /\ idx' = i
            /\ accPc' = IF IsStale(muxes[i]) THEN "dial" ELSE "dispatch"
            /\ waitCalls' = IF IsStale(muxes[i])
                            THEN [waitCalls EXCEPT ![i] = @ + 1]
                            ELSE waitCalls
            /\ UNCHANGED mainPc
    /\ UNCHANGED <<fifoVars, relayVars, config,
                   now, rr, newConn, wake, poolVars, sessVars,
                   streamVars, scavVars, handed, retired, scavClosed, born>>
    /\ seen' = Len(cmds)

(* the errors createConn returns: dial() failed, or smux.Client failed *)
CreateConnErrors == {"dial()", "createConn()"}

(* mutant: waitConn retries without sleeping *)
RetryAtOnce == now

(* time.Sleep(time.Second): when waitConn tries again *)
RetryAt == now + 1

(* waitConn: createConn returned err; log, sleep a second, try again.
   smux.Client is reached only with a config that smux.VerifyConfig
   accepted *)
CreateConnFail(err) ==
    /\ Running
    /\ accPc = "dial"
    /\ now >= wake
    /\ now < MaxTime
    /\ err = "createConn()" => VerifyConfig(config)
    /\ wake' = RetryAt
    /\ UNCHANGED <<fifoVars, relayVars, config,
                   mainPc, now, accPc, rr, idx, newConn, poolVars,
                   sessVars, streamVars, scavVars, histVars>>

(* waitConn: dial() succeeded; the transport carries the shard counts the
   config holds now; smux.VerifyConfig is fatal on failure, otherwise the
   mux session exists *)
CreateConnOk ==
    /\ Running
    /\ accPc = "dial"
    /\ now >= wake
    /\ nextId \in DOMAIN fec
    /\ nextId' = nextId + 1
    /\ fec' = [fec EXCEPT ![nextId] = DialFec]
    /\ nodelay' = [nodelay EXCEPT ![nextId] = NoDelayTuple(config)]
    /\ wake' = 0
    /\ IF VerifyConfig(config)
       THEN /\ newConn' = nextId
            /\ accPc' = "store"
            /\ UNCHANGED mainPc
       ELSE /\ mainPc' = "exited"
            /\ UNCHANGED <<newConn, accPc>>
    /\ born' = [born EXCEPT ![nextId] = now]
    /\ UNCHANGED <<fifoVars, relayVars, config,
                   now, rr, idx, poolVars, closed, streamVars,
                   scavVars, accepted, handed, retired, waitCalls,
                   scavClosed, seen>>

(* muxes[idx].session, connes[idx] = waitConn(); muxes[idx].expiryDate = ... *)
Store ==
    /\ Running
    /\ accPc = "store"
    /\ muxes' = [muxes EXCEPT ![idx] = Refilled(muxes[idx], newConn)]
    /\ connes' = [connes EXCEPT ![idx] = StoredConn(connes[idx], newConn)]
    /\ retired' = retired \cup ({muxes[idx].session} \ {0})
    /\ newConn' = 0
    /\ closed' = AfterRefill(muxes[idx].session)
    /\ accPc' = IF HandOver THEN "enqueue" ELSE "dispatch"
    /\ UNCHANGED <<fifoVars, relayVars, config,
                   mainPc, now, rr, idx, wake, nextId, fec, nodelay,
                   streamVars,
                   scavVars, accepted, handed, waitCalls, scavClosed, seen,
                   born>>

(* mutant: a channel without a capacity *)
CanSendAlways == TRUE

(* a send on the buffered channel can proceed *)
CanSend == Len(chScavenger) < ChanCap

(* chScavenger <- muxes[idx]: blocks while the channel is full *)
Enqueue ==
    /\ Running
    /\ accPc = "enqueue"
    /\ CanSend
    /\ chScavenger' = Append(chScavenger, muxes[idx])
    /\ handed' = [handed EXCEPT ![muxes[idx].session] =
                     [k |-> accepted - 1, expiryDate |-> muxes[idx].expiryDate]]
    /\ accPc' = "dispatch"
    /\ UNCHANGED <<fifoVars, relayVars, config,
                   mainPc, now, rr, idx, newConn, wake, poolVars,
                   sessVars, streamVars, scavPc, sessionList, accepted,
                   retired, waitCalls, scavClosed, seen, born>>

(* go handleClient(muxes[idx].session, p1, config.Quiet); rr++ *)
Dispatch ==
    /\ Running
    /\ accPc = "dispatch"
    /\ pending' = [pending EXCEPT ![DispatchTarget] = @ + 1]
    /\ rr' = IncRR(rr)
    /\ accPc' = "accept"
    /\ UNCHANGED <<fifoVars, relayVars, config,
                   mainPc, now, idx, newConn, wake, poolVars, sessVars,
                   open, scavVars, histVars>>

----------------------------------------------------------------------------
(* handleClient, one step per outcome: session.OpenStream() fails (p1 is
   closed, no pump runs) or succeeds (the relay runs) *)
OpenStream(s) ==
    /\ Running
    /\ pending[s] > 0
    /\ pending' = [pending EXCEPT ![s] = @ - 1]
    /\ open' = IF IsClosed(s) THEN open ELSE [open EXCEPT ![s] = @ + 1]
    /\ UNCHANGED <<fifoVars, relayVars, config,
                   mainPc, now, accVars, poolVars, sessVars, scavVars,
                   histVars>>

(* handleClient: a pump saw EOF or an error, both ends are closed *)
StreamEnd(s) ==
    /\ Running
    /\ open[s] > 0
    /\ open' = [open EXCEPT ![s] = @ - 1]
    /\ UNCHANGED <<fifoVars, relayVars, config,
                   mainPc, now, accVars, poolVars, sessVars, pending,
                   scavVars, histVars>>

(* the mux session closes itself (keepalive failure, transport error) *)
SelfClose(s) ==
    /\ Running
    /\ s < nextId
    /\ ~IsClosed(s)
    /\ closed' = closed \cup {s}
    /\ UNCHANGED <<fifoVars, relayVars, config,
                   mainPc, now, accVars, poolVars, nextId, fec, nodelay,
                   streamVars, scavVars, histVars>>

(* a second passes *)
Tick ==
    /\ Running
    /\ now < MaxTime
    /\ now' = now + 1
    /\ UNCHANGED <<fifoVars, relayVars, config,
                   mainPc, accVars, poolVars, sessVars, streamVars,
                   scavVars, histVars>>

----------------------------------------------------------------------------
(* scavenger: return at once unless AutoExpire > 0 *)
ScavStart ==
    /\ Running
    /\ scavPc = "start"
    /\ scavPc' = IF config.AutoExpire <= 0 THEN "exited" ELSE "loop"
    /\ UNCHANGED <<fifoVars, relayVars, config,
                   mainPc, now, accVars, poolVars, sessVars,
                   streamVars, chScavenger, sessionList, histVars>>

(* case item := <-ch *)
ScavRecv ==
    /\ Running
    /\ scavPc = "loop"
    /\ Len(chScavenger) > 0
    /\ sessionList' = Append(sessionList, ScavEntry(Head(chScavenger)))
    /\ chScavenger' = Tail(chScavenger)
    /\ UNCHANGED <<fifoVars, relayVars, config,
                   mainPc, now, accVars, poolVars, sessVars,
                   streamVars, scavPc, histVars>>

(* the entries the tick keeps, in order *)
RECURSIVE Kept(_)
Kept(l) ==
    IF l = <<>> THEN <<>>
    ELSE IF IsClosed(Head(l).session) \/ TtlPassed(Head(l))
         THEN Kept(Tail(l))
         ELSE <<Head(l)>> \o Kept(Tail(l))

(* the sessions the tick calls Close() on *)
ToClose(l) ==
    {l[k].session : k \in {j \in 1..Len(l) :
                             ~IsClosed(l[j].session) /\ TtlPassed(l[j])}}

(* case <-ticker.C *)
ScavTick ==
    /\ Running
    /\ scavPc = "loop"
    /\ sessionList # <<>>
    /\ sessionList' = Kept(sessionList)
    /\ closed' = closed \cup ToClose(sessionList)
    /\ scavClosed' = scavClosed \cup ToClose(sessionList)
    /\ UNCHANGED <<fifoVars, relayVars, config,
                   mainPc, now, accVars, poolVars, nextId, fec, nodelay,
                   streamVars, scavPc, chScavenger, accepted, handed,
                   retired, waitCalls, seen, born>>

----------------------------------------------------------------------------
Acceptor(limit) ==
    \/ AcceptTCP(limit)
    \/ \E err \in CreateConnErrors : CreateConnFail(err)
    \/ CreateConnOk
    \/ Store
    \/ Dispatch

Scavenger == ScavStart \/ ScavRecv \/ ScavTick

Streams == \E s \in Sessions : OpenStream(s) \/ StreamEnd(s) \/ SelfClose(s)

(* the pool with auto-expiry and the scavenger *)
PoolConfs ==
    [Conn : {1}, AutoExpire : {1}, ScavengeTTL : {0},
     SmuxVer : {1}, DataShard : {10}, ParityShard : {3}, Fifo : {FALSE},
     Mode : {"fast"}, NoDelay : {0}, Interval : {50}, Resend : {0},
     NoCongestion : {0}]
    \cup
    [Conn : {2}, AutoExpire : {1}, ScavengeTTL : {1},
     SmuxVer : {2}, DataShard : {10}, ParityShard : {3}, Fifo : {FALSE},
     Mode : {"fast"}, NoDelay : {0}, Interval : {50}, Resend : {0},
     NoCongestion : {0}]
    \cup
    [Conn : {1, 2}, AutoExpire : {0}, ScavengeTTL : {1},
     SmuxVer : {0, 1, 3}, DataShard : {10}, ParityShard : {3}, Fifo : {FALSE},
     Mode : {"fast"}, NoDelay : {0}, Interval : {50}, Resend : {0},
     NoCongestion : {0}]

Init == InitWith(PoolConfs)

Next ==
    \/ Startup
    \/ Acceptor(MaxAccepts)
    \/ Enqueue
    \/ Scavenger
    \/ Streams
    \/ Tick

Spec == Init /\ [][Next]_vars

(* the pool with auto-expiry where time advances, the scavenger's ticker
   fires and the goroutines are scheduled; the relays, which neither the
   pool nor the scavenger looks at, are left out *)
LiveConfs == {c \in PoolConfs : c.AutoExpire > 0}

InitLive == InitWith(LiveConfs)

LiveFairness ==
    /\ WF_vars(Tick)
    /\ WF_vars(Store)
    /\ WF_vars(Enqueue)
    /\ WF_vars(ScavStart)
    /\ WF_vars(ScavRecv)
    /\ WF_vars(ScavTick)

NextLive ==
    \/ Startup
    \/ Acceptor(MaxAccepts)
    \/ Enqueue
    \/ Scavenger
    \/ \E s \in Sessions : SelfClose(s)
    \/ Tick

SpecLive == InitLive /\ [][NextLive]_vars /\ LiveFairness

(* the round-robin counter over more than 2^16 accepts: every dial succeeds,
   no session closes and nothing expires *)
RRConfs ==
    [Conn : {0, 3}, AutoExpire : {0}, ScavengeTTL : {0},
     SmuxVer : {1}, DataShard : {10}, ParityShard : {3}, Fifo : {FALSE},
     Mode : {"fast"}, NoDelay : {0}, Interval : {50}, Resend : {0},
     NoCongestion : {0}]

InitRR == InitWith(RRConfs)

NextRR ==
    \/ Startup
    \/ AcceptTCP(MaxAcceptsRR)
    \/ CreateConnOk
    \/ Store
    \/ Dispatch

SpecRR == InitRR /\ [][NextRR]_vars

(* the mode profiles: every mode with every manual tuple out of a few
   values, two transports dialed *)
ModeConfs ==
    [Conn : {2}, AutoExpire : {0}, ScavengeTTL : {0},
     SmuxVer : {1}, DataShard : {10}, ParityShard : {3}, Fifo : {FALSE},
     Mode : {"normal", "fast", "fast2", "fast3", "manual"},
     NoDelay : {0, 1}, Interval : {40, 50}, Resend : {0, 2},
     NoCongestion : {0, 1}]

InitMode == InitWith(ModeConfs)

NextMode ==
    \/ Startup
    \/ AcceptTCP(MaxAccepts)
    \/ CreateConnOk
    \/ Store
    \/ Dispatch

SpecMode == InitMode /\ [][NextMode]_vars

(* the scavenger channel up to its capacity: every connection arrives when
   the session of the one slot has closed itself, so that every accept
   refills and enqueues; dials succeed and time stands still *)
ChanConfs ==
    [Conn : {1}, AutoExpire : {1}, ScavengeTTL : {0},
     SmuxVer : {1}, DataShard : {10}, ParityShard : {3}, Fifo : {FALSE},
     Mode : {"fast"}, NoDelay : {0}, Interval : {50}, Resend : {0},
     NoCongestion : {0}]

InitChan == InitOver(ChanConfs, 1..MaxChanAccepts)

ArriveWhenStale == IsStale(muxes[0]) /\ AcceptTCP(MaxChanAccepts)

NextChan ==
    \/ Startup
    \/ ArriveWhenStale
    \/ CreateConnOk
    \/ Store
    \/ Enqueue
    \/ Dispatch
    \/ ScavStart
    \/ ScavRecv
    \/ \E s \in DOMAIN fec : SelfClose(s)

(* the goroutines are scheduled: the scavenger starts and takes what is
   in the channel, and a send that can proceed does *)
ChanFairness ==
    /\ WF_vars(ScavStart)
    /\ WF_vars(ScavRecv)
    /\ WF_vars(Enqueue)

SpecChan == InitChan /\ [][NextChan]_vars /\ ChanFairness

----------------------------------------------------------------------------
(* The control FIFO.  A line is a sequence of characters. *)

Digits == <<"0", "1", "2", "3", "4", "5", "6", "7", "8", "9">>

IsDigit(c) == \E d \in 1..10 : Digits[d] = c

DigitVal(c) == (CHOOSE d \in 1..10 : Digits[d] = c) - 1

(* strings.Split(s, " "): the pieces between single spaces; an empty string
   gives one empty piece *)
RECURSIVE Split(_)
Split(s) ==
    IF \A j \in 1..Len(s) : s[j] # " " THEN <<s>>
    ELSE LET j == CHOOSE j \in 1..Len(s) :
                     s[j] = " " /\ \A i \in 1..(j - 1) : s[i] # " "
         IN <<SubSeq(s, 1, j - 1)>> \o Split(SubSeq(s, j + 1, Len(s)))

(* strings.Contains(s, sub) *)
Contains(s, sub) ==
    \E j \in 0..(Len(s) - Len(sub)) : SubSeq(s, j + 1, j + Len(sub)) = sub

(* the value of a non-empty string of digits *)
RECURSIVE DecVal(_)
DecVal(s) ==
    IF s = <<>> THEN 0
    ELSE 10 * DecVal(SubSeq(s, 1, Len(s) - 1)) + DigitVal(s[Len(s)])

(* ds, _ := strconv.Atoi(s): an optional sign and then digits only; 0 for
   anything else, the error being dropped *)
Atoi(s) ==
    LET body == IF s # <<>> /\ s[1] \in {"+", "-"} THEN Tail(s) ELSE s
    IN IF body = <<>> \/ \E j \in 1..Len(body) : ~IsDigit(body[j]) THEN 0
       ELSE IF s[1] = "-" THEN 0 - DecVal(body) ELSE DecVal(body)

FecWord == <<"f", "e", "c">>

(* strings.Contains(message[0], "fec") *)
IsFecCall(message) == Contains(message[1], FecWord)

(* message[1] and message[2] exist *)
HasArgs(message) == Len(message) >= 3

(* mutant: the change test with && for || *)
ShardsDifferBoth(ds, ps) == ds # config.DataShard /\ ps # config.ParityShard

(* ds != config.DataShard || ps != config.ParityShard *)
ShardsDiffer(ds, ps) == ds # config.DataShard \/ ps # config.ParityShard

(* line, _, err := reader.ReadLine() with err == nil, up to the test of the
   shard counts; a fec call without two arguments indexes message out of
   range and the process panics; time.Sleep follows *)
FifoRead(line) ==
    /\ Running
    /\ config.Fifo
    /\ fifoPc = "read"
    /\ linesRead < MaxLines
    /\ linesRead' = linesRead + 1
    /\ fifoLine' = line
    /\ LET message == Split(line) IN
       IF IsFecCall(message)
       THEN IF ~HasArgs(message)
            THEN /\ mainPc' = "panicked"
                 /\ UNCHANGED <<fifoPc, fifoDs, fifoPs, fifoLog, cmds>>
            ELSE LET ds == Atoi(message[2])
                     ps == Atoi(message[3])
                 IN /\ fifoDs' = ds
                    /\ fifoPs' = ps
                    /\ fifoPc' = IF ShardsDiffer(ds, ps) THEN "setds"
                                 ELSE "read"
                    /\ cmds' = IF ShardsDiffer(ds, ps)
                               THEN Append(cmds, <<ds, ps>>) ELSE cmds
                    /\ fifoLog' = "none"
                    /\ UNCHANGED mainPc
       ELSE /\ fifoLog' = "Unknown call"
            /\ UNCHANGED <<mainPc, fifoPc, fifoDs, fifoPs, cmds>>
    /\ UNCHANGED <<relayVars, config, now, accVars, poolVars, sessVars,
                   streamVars, scavVars, histVars, fifoAddr>>

(* config.DataShard = ds *)
FifoSetDS ==
    /\ Running
    /\ fifoPc = "setds"
    /\ config' = [config EXCEPT !.DataShard = fifoDs]
    /\ fifoPc' = "setps"
    /\ UNCHANGED <<relayVars, mainPc, now, accVars, poolVars, sessVars,
                   streamVars, scavVars, histVars, fifoDs, fifoPs, fifoAddr,
                   fifoLine, fifoLog, linesRead, cmds>>

(* config.ParityShard = ps; log; the loop over connes begins *)
FifoSetPS ==
    /\ Running
    /\ fifoPc = "setps"
    /\ config' = [config EXCEPT !.ParityShard = fifoPs]
    /\ fifoLog' = "ds: ps:"
    /\ fifoAddr' = 0
    /\ fifoPc' = "setfec"
    /\ UNCHANGED <<relayVars, mainPc, now, accVars, poolVars, sessVars,
                   streamVars, scavVars, histVars, fifoDs, fifoPs, fifoLine,
                   linesRead, cmds>>

(* one turn of: for addr := range connes { if connes[addr] != nil {
   connes[addr].SetFEC(config.DataShard, config.ParityShard) } } *)
FifoSetFEC ==
    /\ Running
    /\ fifoPc = "setfec"
    /\ IF fifoAddr < NumConn(config)
       THEN /\ fec' = IF connes[fifoAddr] # 0
                      THEN [fec EXCEPT ![connes[fifoAddr]] =
                               <<config.DataShard, config.ParityShard>>]
                      ELSE fec
            /\ fifoAddr' = fifoAddr + 1
            /\ UNCHANGED fifoPc
       ELSE /\ fifoPc' = "read"
            /\ UNCHANGED <<fec, fifoAddr>>
    /\ UNCHANGED <<relayVars, config, mainPc, now, accVars, poolVars, nextId,
                   closed, nodelay, streamVars, scavVars, histVars, fifoDs, fifoPs,
                   fifoLine, fifoLog, linesRead, cmds>>

(* the lines written to the FIFO *)
FifoLines ==
    { <<"f", "e", "c", " ", "2", "0", " ", "5">>,
      <<"f", "e", "c", " ", "1", "0", " ", "3">>,
      <<"f", "e", "c", " ", "1", "0", " ", "5">>,
      <<"f", "e", "c", " ", "8", " ", "-", "1">>,
      <<"f", "e", "c">>,
      <<"f", "e", "c", " ", "2", "0">>,
      <<"f", "e", "c", " ", "a", " ", "b">>,
      <<"f", "e", "c", " ", " ", "2", "0", " ", "5">>,
      <<"x", "f", "e", "c", " ", "2", "0", " ", "5">>,
      <<"f", "e", " ", "2", "0", " ", "5">>,
      <<>> }

FifoReader == (\E line \in FifoLines : FifoRead(line))
                  \/ FifoSetDS \/ FifoSetPS \/ FifoSetFEC

(* the whole client: the pool with auto-expiry, the scavenger, the relays
   and the FIFO reader, which is sent a command that changes the shard
   counts the first time and repeats them after that *)
CtlLines == { <<"f", "e", "c", " ", "2", "0", " ", "5">> }

AllConfs ==
    [Conn : {1}, AutoExpire : {1}, ScavengeTTL : {0},
     SmuxVer : {1}, DataShard : {10}, ParityShard : {3}, Fifo : {TRUE},
     Mode : {"fast"}, NoDelay : {0}, Interval : {50}, Resend : {0},
     NoCongestion : {0}]

InitAll == InitWith(AllConfs)

NextAll ==
    \/ Startup
    \/ Acceptor(MaxAccepts)
    \/ Enqueue
    \/ Scavenger
    \/ Streams
    \/ Tick
    \/ \E line \in CtlLines : FifoRead(line)
    \/ FifoSetDS
    \/ FifoSetPS
    \/ FifoSetFEC

SpecAll == InitAll /\ [][NextAll]_vars

FifoConfs ==
    [Conn : {1, 2}, AutoExpire : {0}, ScavengeTTL : {0},
     SmuxVer : {1}, DataShard : {10}, ParityShard : {3}, Fifo : {TRUE},
     Mode : {"fast"}, NoDelay : {0}, Interval : {50}, Resend : {0},
     NoCongestion : {0}]

InitFifo == InitWith(FifoConfs)

NextFifo ==
    \/ Startup
    \/ AcceptTCP(MaxAccepts)
    \/ CreateConnOk
    \/ Store
    \/ Dispatch
    \/ FifoReader

SpecFifo == InitFifo /\ [][NextFifo]_vars

----------------------------------------------------------------------------
(* handleClient step by step, for the first connection dispatched.  "h" is
   streamCopy(p2, p1), which reads p1, and "g" is go streamCopy(p1, p2),
   which reads p2. *)

Pumps == {"h", "g"}

(* a blocked read of the pump's source returns: EOF or an error from the
   peer, or the endpoint was closed here (for a stream, also when its
   session is closed) *)
ReadEnds(w) ==
    IF w = "h" THEN p1Eof \/ p1 = "closed"
    ELSE p2Eof \/ p2 = "closed" \/ IsClosed(hSess)

(* a write to the pump's destination fails *)
WriteFails(w) ==
    IF w = "h" THEN p2 = "closed" \/ IsClosed(hSess)
    ELSE p1 = "closed"

(* mutant: streamCopy returns without closing anything *)
AfterCopyNoClose == "done"

(* after generic.Copy returns streamCopy goes on to p1.Close() *)
AfterCopy == "closeP1"

(* mutant: handleClient returns on the error without closing p1 *)
AfterOpenErrorLeak == "open"

(* defer p1.Close() runs when handleClient returns on the error *)
AfterOpenError == "closed"

(* p2, err := session.OpenStream(); on an error p1 is closed and
   handleClient returns; otherwise both pumps start *)
RelayOpen(s) ==
    /\ Running
    /\ pumpPc["h"] = "none"
    /\ pending[s] > 0
    /\ pending' = [pending EXCEPT ![s] = @ - 1]
    /\ hSess' = s
    /\ IF IsClosed(s)
       THEN /\ p1' = AfterOpenError
            /\ pumpPc' = [pumpPc EXCEPT !["h"] = "failed"]
            /\ UNCHANGED <<p2, open>>
       ELSE /\ p1' = "open"
            /\ p2' = "open"
            /\ open' = [open EXCEPT ![s] = @ + 1]
            /\ pumpPc' = [w \in Pumps |-> "copy"]
    /\ UNCHANGED <<fifoVars, config, mainPc, now, accVars, poolVars, sessVars,
                   scavVars, histVars, p1Eof, p2Eof>>

(* the local peer closes or resets the TCP connection *)
ClientEOF ==
    /\ Running
    /\ p1 = "open"
    /\ ~p1Eof
    /\ p1Eof' = TRUE
    /\ UNCHANGED <<fifoVars, config, mainPc, now, accVars, poolVars, sessVars,
                   streamVars, scavVars, histVars, pumpPc, hSess, p1, p2,
                   p2Eof>>

(* the remote peer closes or resets the stream *)
RemoteEOF ==
    /\ Running
    /\ p2 = "open"
    /\ ~p2Eof
    /\ p2Eof' = TRUE
    /\ UNCHANGED <<fifoVars, config, mainPc, now, accVars, poolVars, sessVars,
                   streamVars, scavVars, histVars, pumpPc, hSess, p1, p2,
                   p1Eof>>

(* generic.Copy returns because the read of its source ended *)
CopyReadEnds(w) ==
    /\ Running
    /\ pumpPc[w] = "copy"
    /\ ReadEnds(w)
    /\ pumpPc' = [pumpPc EXCEPT ![w] = AfterCopy]
    /\ UNCHANGED <<fifoVars, config, mainPc, now, accVars, poolVars, sessVars,
                   streamVars, scavVars, histVars, hSess, p1, p2, p1Eof,
                   p2Eof>>

(* generic.Copy returns because a write to its destination failed *)
CopyWriteFails(w) ==
    /\ Running
    /\ pumpPc[w] = "copy"
    /\ WriteFails(w)
    /\ pumpPc' = [pumpPc EXCEPT ![w] = AfterCopy]
    /\ UNCHANGED <<fifoVars, config, mainPc, now, accVars, poolVars, sessVars,
                   streamVars, scavVars, histVars, hSess, p1, p2, p1Eof,
                   p2Eof>>

(* streamCopy: p1.Close() *)
PumpCloseP1(w) ==
    /\ Running
    /\ pumpPc[w] = "closeP1"
    /\ p1' = "closed"
    /\ pumpPc' = [pumpPc EXCEPT ![w] = "closeP2"]
    /\ UNCHANGED <<fifoVars, config, mainPc, now, accVars, poolVars, sessVars,
                   streamVars, scavVars, histVars, hSess, p2, p1Eof, p2Eof>>

(* streamCopy: p2.Close(); "g" ends here, "h" returns into handleClient *)
PumpCloseP2(w) ==
    /\ Running
    /\ pumpPc[w] = "closeP2"
    /\ p2' = "closed"
    /\ open' = IF p2 = "open" THEN [open EXCEPT ![hSess] = @ - 1] ELSE open
    /\ pumpPc' = [pumpPc EXCEPT ![w] = IF w = "h" THEN "defer" ELSE "done"]
    /\ UNCHANGED <<fifoVars, config, mainPc, now, accVars, poolVars, sessVars,
                   pending, scavVars, histVars, hSess, p1, p1Eof, p2Eof>>

(* handleClient returns: the deferred p2.Close() and p1.Close() *)
RelayReturn ==
    /\ Running
    /\ pumpPc["h"] = "defer"
    /\ p1' = "closed"
    /\ p2' = "closed"
    /\ open' = IF p2 = "open" THEN [open EXCEPT ![hSess] = @ - 1] ELSE open
    /\ pumpPc' = [pumpPc EXCEPT !["h"] = "done"]
    /\ UNCHANGED <<fifoVars, config, mainPc, now, accVars, poolVars, sessVars,
                   pending, scavVars, histVars, hSess, p1Eof, p2Eof>>

Relay ==
    \/ \E s \in Sessions : RelayOpen(s) \/ SelfClose(s)
    \/ ClientEOF
    \/ RemoteEOF
    \/ \E w \in Pumps : \/ CopyReadEnds(w)
                        \/ CopyWriteFails(w)
                        \/ PumpCloseP1(w)
                        \/ PumpCloseP2(w)
    \/ RelayReturn

RelayConfs ==
    [Conn : {1}, AutoExpire : {0}, ScavengeTTL : {0},
     SmuxVer : {1}, DataShard : {10}, ParityShard : {3}, Fifo : {FALSE},
     Mode : {"fast"}, NoDelay : {0}, Interval : {50}, Resend : {0},
     NoCongestion : {0}]

InitRelay == InitWith(RelayConfs)

NextRelay ==
    \/ Startup
    \/ AcceptTCP(MaxAccepts)
    \/ CreateConnOk
    \/ Store
    \/ Dispatch
    \/ Relay

(* every goroutine that can take a step does so in the end *)
RelayFairness ==
    /\ \A w \in Pumps : /\ WF_vars(CopyReadEnds(w))
                        /\ WF_vars(PumpCloseP1(w))
                        /\ WF_vars(PumpCloseP2(w))
    /\ WF_vars(RelayReturn)

SpecRelay == InitRelay /\ [][NextRelay]_vars /\ RelayFairness

----------------------------------------------------------------------------
(* Steps of the acceptor, recognised by its position *)
AcceptStep == accPc = "accept" /\ accPc' \in {"dial", "dispatch"}
StoreStep == accPc = "store" /\ accPc' # "store"
DispatchStep == accPc = "dispatch" /\ accPc' = "accept"

(* C1, as stated: once a session has been sent on the scavenger channel, no
   connection accepted after that is dispatched to it. *)
C1_HandedNeverReused ==
    [][DispatchStep =>
         (handed[DispatchTarget].k = -1
            \/ handed[DispatchTarget].k >= accepted - 1)]_vars

(* C1, amended: no session replaced by a refill is reused; every new
   handleClient goroutine is started on a session that no refill has
   replaced, and no replaced session is in a slot. *)
C1_RetiredNeverReused ==
    [][/\ \A s \in Sessions : pending'[s] > pending[s] => s \notin retired
       /\ \A i \in DOMAIN muxes' : muxes'[i].session \notin retired']_vars

(* a refill has replaced a session that had been handed to the scavenger,
   and a connection accepted later was dispatched to the new session *)
C1_Witness ==
    \E s \in Sessions, r \in retired :
        /\ handed[r].k >= 0
        /\ s \notin retired
        /\ handed[s].k >= 0
        /\ pending[s] > 0

(* C4: with AutoExpire = 0 the scavenger channel and list stay empty, no
   session is ever sent to the scavenger, the scavenger never enters its
   loop (its one step is the return) and it closes no session. *)
C4_NoScavengerWithoutExpiry ==
    config.AutoExpire = 0 =>
        /\ chScavenger = <<>>
        /\ sessionList = <<>>
        /\ scavPc \in {"start", "exited"}
        /\ scavClosed = {}
        /\ \A s \in Sessions : handed[s].k = -1

(* AutoExpire = 0, the scavenger has returned, and two refills are done *)
C4_Witness ==
    /\ config.AutoExpire = 0
    /\ scavPc = "exited"
    /\ nextId > 2
    /\ accPc = "accept"
    /\ accepted >= 2

(* C6: the staleness test refills exactly when the slot's session is nil,
   closed, or (AutoExpire > 0 and now is after the expiry), and leaves the
   slot untouched otherwise; nothing but the refill changes a slot, so the
   session dispatched to is the one the test saw or the one the refill made;
   an expired session is never dispatched to; the refill closes no session
   and ends no stream. *)
C6_RefillExactlyWhenStale ==
    [][/\ AcceptStep =>
            LET m == muxes[idx'] IN
            /\ (accPc' = "dial") <=>
                   (\/ m.session = 0
                    \/ m.session \in closed
                    \/ (config.AutoExpire > 0 /\ now > m.expiryDate))
            /\ muxes' = muxes
            /\ connes' = connes
       /\ ~StoreStep => muxes' = muxes
       /\ StoreStep =>
            /\ closed' = closed
            /\ open' = open
            /\ pending' = pending
            /\ muxes'[idx].session \notin ({muxes[idx].session} \cup retired)
       /\ DispatchStep =>
            /\ pending' = [pending EXCEPT ![muxes[idx].session] = @ + 1]
            /\ (config.AutoExpire > 0 =>
                  \A s \in retired : pending'[s] = pending[s])]_vars

(* the acceptor found a session expired that is open and carries a stream *)
C6_Witness ==
    /\ accPc = "dial"
    /\ muxes[idx].session # 0
    /\ muxes[idx].session \notin closed
    /\ config.AutoExpire > 0
    /\ now > muxes[idx].expiryDate
    /\ open[muxes[idx].session] > 0

(* C7, as stated: the scavenger calls Close only on sessions without open
   streams. *)
C7_ClosesOnlyDrained ==
    [][\A s \in scavClosed' \ scavClosed : open[s] = 0]_vars

(* C7, amended: the scavenger gives streams the grace window and no more: it
   calls Close only on a session that was handed to it, is not closed, and
   whose expiry plus ScavengeTTL has passed, whatever its streams; the Close
   leaves the stream counts as they are. *)
C7_ClosesOnlyAfterGrace ==
    [][\A s \in scavClosed' \ scavClosed :
          /\ handed[s].k >= 0
          /\ s \notin closed
          /\ now > handed[s].expiryDate + config.ScavengeTTL
          /\ open' = open]_vars

(* the scavenger has closed a session that still carries a stream *)
C7_Witness ==
    \E s \in scavClosed : open[s] > 0 /\ config.ScavengeTTL > 0

(* C8, as stated: with Conn = 1 and AutoExpire = 0 waitConn is called for
   slot 0 only for the first accepted connection. *)
C8_NeverRefills ==
    (config.Conn = 1 /\ config.AutoExpire = 0) => waitCalls[0] <= 1

(* C8, amended: with Conn = 1 and AutoExpire = 0 waitConn is called for the
   first accepted connection and after that only when the slot's session
   reports closed: every further call is for another closed session. *)
C8_RefillsOnlyAfterClose ==
    (config.Conn = 1 /\ config.AutoExpire = 0) =>
        /\ waitCalls[0] <= 1 + Cardinality(closed)
        /\ (accPc \in {"dial", "store"} /\ waitCalls[0] > 1 =>
               muxes[0].session \in closed)

(* Conn = 1, AutoExpire = 0: the session of the first connection closed
   itself and the second connection made the pool refill *)
C8_Witness ==
    /\ config.Conn = 1
    /\ config.AutoExpire = 0
    /\ waitCalls[0] = 2
    /\ closed = {1}
    /\ muxes[0].session = 2

(* C9, as stated: with a mux version other than 1 or 2 no connection is
   accepted and no session is dialed. *)
C9_BadVersionBeforeAccept ==
    (config.SmuxVer # 1 /\ config.SmuxVer # 2) => (accepted = 0 /\ nextId = 1)

(* C3, as stated: the k-th accepted connection is dispatched to slot
   k mod Conn, also after rr has wrapped, and the slot is within [0, Conn). *)
C3_SlotIsKModConn ==
    [][DispatchStep =>
         /\ idx = (accepted - 1) % config.Conn
         /\ idx \in 0 .. config.Conn - 1]_vars

(* C3, amended: for 1 <= Conn <= 65535 the k-th accepted connection is
   dispatched to slot (k mod 2^16) mod Conn, which is within [0, Conn) and
   is k mod Conn for every k < 2^16. *)
C3_SlotIsRRModConn ==
    [][DispatchStep =>
         LET k == accepted - 1 IN
         /\ idx = (k % 65536) % config.Conn
         /\ idx \in 0 .. config.Conn - 1
         /\ (k < 65536 => idx = k % config.Conn)
         /\ pending'[muxes[idx].session] = pending[muxes[idx].session] + 1]_vars

(* the counter has wrapped and the connection about to be dispatched goes to
   a slot that is not k mod Conn *)
C3_Witness ==
    /\ accPc = "dispatch"
    /\ accepted - 1 >= 65536
    /\ rr = (accepted - 1) - 65536
    /\ idx # (accepted - 1) % config.Conn

(* the grammar of the fec command: three pieces, the word fec and two
   integers *)
IsIntText(s) ==
    LET body == IF s # <<>> /\ s[1] \in {"+", "-"} THEN Tail(s) ELSE s
    IN body # <<>> /\ \A j \in 1..Len(body) : IsDigit(body[j])

WellFormedFec(line) ==
    LET m == Split(line)
    IN Len(m) = 3 /\ m[1] = <<"f", "e", "c">> /\ IsIntText(m[2])
         /\ IsIntText(m[3])

FifoReadStep == linesRead' = linesRead + 1

(* C2, as stated, for one well-formed command and a session that already
   carries a stream: a connection accepted after a fec command was read is
   never dispatched to a session whose transport has other shard counts
   than that command's. *)
C2_FecBeforeNextStream ==
    [][(/\ DispatchStep
        /\ seen > 0
        /\ pending[DispatchTarget] > 0
        /\ linesRead = 1
        /\ WellFormedFec(fifoLine))
       => \E j \in seen..Len(cmds) : fec[DispatchTarget] = cmds[j]]_vars

(* C10, as stated: a line that is not a well-formed fec command leaves the
   reader running at the head of its loop, with no update of the config or
   of a transport started. *)
C10_MalformedIgnored ==
    [][FifoReadStep /\ ~WellFormedFec(fifoLine') =>
         mainPc' = "running" /\ fifoPc' = "read"]_vars

(* C5: once a pump of a relay has seen its copy end, both endpoints get
   closed and both pumps terminate; no endpoint of a relay stays open once
   the other has been closed. *)
C5_CloseReachesBothEnds ==
    /\ \A w \in Pumps :
          (pumpPc[w] \notin {"none", "failed", "copy"})
             ~> (/\ p1 = "closed"
                 /\ p2 = "closed"
                 /\ \A v \in Pumps : pumpPc[v] = "done")
    /\ (p1 = "closed" /\ p2 = "open") ~> (p2 = "closed")
    /\ (p2 = "closed" /\ p1 = "open") ~> (p1 = "closed")

(* the remote side ended the stream while the local peer kept its
   connection open, and the relay has closed both ends and finished *)
C5_Witness ==
    /\ p2Eof
    /\ ~p1Eof
    /\ ~IsClosed(hSess)
    /\ p1 = "closed"
    /\ p2 = "closed"
    /\ \A w \in Pumps : pumpPc[w] = "done"

(* C11: close is called on a mux session by the scavenger only: a session
   becomes closed only in a step that is neither the acceptor's (refill
   included), nor a relay's, nor the FIFO reader's, and that is either a
   scavenger tick closing an entry of its list or the session closing
   itself. *)
C11_OnlyScavengerCloses ==
    [][closed' # closed =>
         /\ UNCHANGED <<accVars, poolVars, streamVars, fifoVars, config>>
         /\ \A s \in closed' \ closed :
               \/ /\ scavPc = "loop"
                  /\ \E k \in 1..Len(sessionList) :
                        sessionList[k].session = s
                  /\ s \in scavClosed'
                  /\ s \notin scavClosed
               \/ UNCHANGED <<scavVars, scavClosed>>]_vars

(* a refill has replaced a session that was not closed and still carries a
   stream, the FIFO reader has applied a command to every slot, and the
   replaced session is still not closed *)
C11_Witness ==
    /\ fifoLog = "ds: ps:"
    /\ fifoPc = "read"
    /\ \E r \in retired : r \notin closed /\ open[r] > 0

(* a step in which the scavenger's tick changed its list *)
TickStep == sessionList' # sessionList /\ chScavenger' = chScavenger

(* C12: the scavenger calls Close on a session created at t0 only at a tick
   with now > t0 + AutoExpire + ScavengeTTL and only if the session is not
   closed; the tick removes the entries whose session reports closed
   without calling Close on them, and keeps every entry that is neither
   closed nor due, in insertion order. *)
C12_ClosesOnlyAfterWindow ==
    [][/\ \A s \in scavClosed' \ scavClosed :
            /\ now > born[s] + config.AutoExpire + config.ScavengeTTL
            /\ s \notin closed
            /\ TickStep
       /\ TickStep =>
            /\ sessionList' =
                 SelectSeq(sessionList,
                           LAMBDA e : e.session \notin closed
                                        /\ ~(now > e.expiryDate))
            /\ scavClosed' \ scavClosed =
                 {sessionList[k].session : k \in
                    {j \in 1..Len(sessionList) :
                       /\ sessionList[j].session \notin closed
                       /\ now > sessionList[j].expiryDate}}
            /\ closed' \ closed = scavClosed' \ scavClosed]_vars

(* the scavenger has closed a session at the first second after its window
   and has kept the entry after it, whose session is open and not yet due *)
C12_Witness ==
    \E s \in scavClosed :
        /\ now = born[s] + config.AutoExpire + config.ScavengeTTL + 1
        /\ config.ScavengeTTL > 0
        /\ Len(sessionList) = 1
        /\ sessionList[1].session \notin closed
        /\ handed[sessionList[1].session].k > handed[s].k

(* createConn returned an error: no session was made and waitConn sleeps *)
FailStep == accPc = "dial" /\ nextId' = nextId /\ wake' # wake

(* C13: an error from dial or from the mux client constructor leaves the
   slot's session, transport and expiry as they were and the process
   running, and the next attempt comes a second later at the earliest; the
   refill ends only with a success, after which the slot holds the new
   session and transport with expiry now + AutoExpire, and the new session
   is sent to the scavenger exactly once if AutoExpire > 0 and not at all
   otherwise. *)
C13_RefillRetriesUntilSuccess ==
    [][/\ FailStep =>
            /\ muxes' = muxes
            /\ connes' = connes
            /\ mainPc' = "running"
            /\ accPc' = "dial"
            /\ wake' = now + 1
       /\ (accPc = "dial" /\ (nextId' # nextId \/ wake' # wake)) => now >= wake
       /\ (accPc = "dial" /\ accPc' # "dial") =>
            /\ accPc' = "store"
            /\ newConn' = nextId
            /\ nextId' = nextId + 1
       /\ StoreStep =>
            /\ muxes'[idx] = [session |-> newConn,
                              expiryDate |-> now + config.AutoExpire]
            /\ connes'[idx] = newConn
            /\ accPc' = IF config.AutoExpire > 0 THEN "enqueue"
                        ELSE "dispatch"
       /\ (accPc = "enqueue" /\ accPc' # "enqueue") =>
            /\ chScavenger' = Append(chScavenger, muxes[idx])
            /\ handed[muxes[idx].session].k = -1
            /\ accPc' = "dispatch"
       /\ Len(chScavenger') > Len(chScavenger) => accPc = "enqueue"]_vars

(* the refill of a slot whose session has expired has failed and sleeps:
   the slot still holds the old session, which was handed to the scavenger
   when it was made *)
C13_Witness ==
    /\ accPc = "dial"
    /\ wake = now + 1
    /\ config.AutoExpire > 0
    /\ muxes[idx].session # 0
    /\ connes[idx] = muxes[idx].session
    /\ handed[muxes[idx].session].k >= 0
    /\ now > muxes[idx].expiryDate

(* the shard counts a well-formed fec command names *)
NamedShards(line) == <<Atoi(Split(line)[2]), Atoi(Split(line)[3])>>

CurrentShards == <<config.DataShard, config.ParityShard>>

(* C14: a fec command whose shard counts differ from the config's in either
   number sets Config.DataShard and Config.ParityShard to them and then
   visits every slot, calling SetFEC with them on the transport of each slot
   it finds non-nil; a fec command that repeats the config's shard counts
   changes neither the config nor any transport.  Nothing else changes the
   config's shard counts or those of an existing transport. *)
C14_FecCommandEffect ==
    [][/\ (FifoReadStep /\ WellFormedFec(fifoLine')) =>
            IF NamedShards(fifoLine') = CurrentShards
            THEN /\ fifoPc' = "read"
                 /\ config' = config
                 /\ fec' = fec
            ELSE /\ fifoPc' = "setds"
                 /\ <<fifoDs', fifoPs'>> = NamedShards(fifoLine')
       /\ (fifoPc = "setds" /\ fifoPc' # "setds") =>
            /\ config' = [config EXCEPT !.DataShard = fifoDs]
            /\ fifoPc' = "setps"
       /\ (fifoPc = "setps" /\ fifoPc' # "setps") =>
            /\ config' = [config EXCEPT !.ParityShard = fifoPs]
            /\ fifoPc' = "setfec"
            /\ fifoAddr' = 0
       /\ (fifoPc = "setfec" /\ fifoAddr' # fifoAddr) =>
            /\ fifoAddr' = fifoAddr + 1
            /\ CurrentShards = <<fifoDs, fifoPs>>
            /\ fec' = IF connes[fifoAddr] # 0
                      THEN [fec EXCEPT ![connes[fifoAddr]] =
                               <<fifoDs, fifoPs>>]
                      ELSE fec
       /\ (fifoPc = "setfec" /\ fifoPc' # "setfec") =>
            /\ fifoAddr = config.Conn
            /\ fifoPc' = "read"
       /\ <<config'.DataShard, config'.ParityShard>> # CurrentShards =>
            fifoPc \in {"setds", "setps"}
       /\ \A s \in Sessions :
            (s < nextId /\ fec'[s] # fec[s]) =>
                (fifoPc = "setfec" /\ s = connes[fifoAddr])]_vars

(* two transports were dialed with the first shard counts; a command with
   other counts is being applied: the slot visited has them, the next slot
   is still to be visited *)
C14_Witness ==
    /\ fifoPc = "setfec"
    /\ fifoAddr = 1
    /\ config.Conn = 2
    /\ connes[0] # 0
    /\ connes[1] # 0
    /\ fec[connes[0]] = <<fifoDs, fifoPs>>
    /\ fec[connes[1]] = <<10, 3>>
    /\ CurrentShards = <<fifoDs, fifoPs>>
    /\ WellFormedFec(fifoLine)

(* C15, as stated: a line whose first token is not exactly fec is answered
   with "Unknown call" and starts no update of the config or of a
   transport. *)
C15_OnlyExactFec ==
    [][(FifoReadStep /\ Split(fifoLine')[1] # <<"f", "e", "c">>) =>
         /\ fifoLog' = "Unknown call"
         /\ fifoPc' = "read"
         /\ cmds' = cmds]_vars

(* session.OpenStream() returned an error *)
OpenFailStep == pumpPc["h"] = "none" /\ pumpPc'["h"] = "failed"

(* C16: when OpenStream fails, p1 is closed, there is no stream and no pump
   is started, then or later; the slots, the sessions and the acceptor are
   left as they are and the process keeps running; every dispatch advances
   rr by exactly one, whatever becomes of the stream. *)
C16_OpenFailureClosesP1 ==
    [][/\ OpenFailStep =>
            /\ p1' = "closed"
            /\ p2' = "none"
            /\ pumpPc'["g"] = "none"
            /\ open' = open
            /\ muxes' = muxes
            /\ connes' = connes
            /\ closed' = closed
            /\ UNCHANGED accVars
            /\ mainPc' = "running"
       /\ pumpPc["h"] = "failed" =>
            /\ pumpPc' = pumpPc
            /\ p1' = "closed"
            /\ p2' = "none"
       /\ DispatchStep => rr' = (rr + 1) % 65536
       /\ rr' # rr => DispatchStep]_vars

(* the stream of the first connection could not be opened; the acceptor has
   since served a second connection with a new session and rr counts both *)
C16_Witness ==
    /\ pumpPc["h"] = "failed"
    /\ pumpPc["g"] = "none"
    /\ p1 = "closed"
    /\ hSess = 1
    /\ accepted = 2
    /\ rr = 2
    /\ accPc = "accept"
    /\ muxes[0].session = 2

(* C17: the scavenger channel never holds more than 128 sessions; while it
   is full the acceptor stays at its send with the slot as it is, and a
   send that completes appends the slot's session to the channel and drops
   nothing that is in it; every send completes in the end. *)
C17_ChannelBounded ==
    /\ [](Len(chScavenger) <= 128)
    /\ [][/\ (accPc = "enqueue" /\ Len(chScavenger) = 128) =>
               (accPc' = "enqueue" /\ muxes' = muxes /\ newConn' = newConn)
          /\ (accPc = "enqueue" /\ accPc' # "enqueue") =>
               chScavenger' = Append(chScavenger, muxes[idx])
          /\ Len(chScavenger') < Len(chScavenger) =>
               /\ chScavenger' = Tail(chScavenger)
               /\ sessionList'[Len(sessionList')].session =
                    Head(chScavenger).session]_vars
    /\ (accPc = "enqueue") ~> (accPc = "dispatch")

(* the channel is full and the acceptor waits at its send with the session
   it has just made *)
C17_Witness ==
    /\ accPc = "enqueue"
    /\ Len(chScavenger) = ChanCap
    /\ scavPc = "loop"
    /\ handed[muxes[idx].session].k = -1

(* the tuple the claim gives for a mode, given the manual tuple *)
ProfileTuple(mode, manual) ==
    CASE mode = "normal" -> <<0, 40, 2, 1>>
      [] mode = "fast" -> <<0, 30, 2, 1>>
      [] mode = "fast2" -> <<1, 20, 2, 1>>
      [] mode = "fast3" -> <<1, 10, 2, 1>>
      [] mode = "manual" -> manual

(* C18: the mode switch turns the configured tuple (NoDelay, Interval,
   Resend, NoCongestion) into the profile's for normal, fast, fast2 and
   fast3, whatever the manual values, and leaves it for manual; nothing
   changes the tuple afterwards, and SetNoDelay is called with it on every
   transport dialed. *)
C18_ModeDecidesTuple ==
    [][/\ mainPc = "init" =>
            /\ config'.Mode = config.Mode
            /\ config.Mode \in {"normal", "fast", "fast2", "fast3", "manual"}
                 => <<config'.NoDelay, config'.Interval, config'.Resend,
                      config'.NoCongestion>> =
                    ProfileTuple(config.Mode,
                                 <<config.NoDelay, config.Interval,
                                   config.Resend, config.NoCongestion>>)
       /\ mainPc # "init" =>
            /\ config'.Mode = config.Mode
            /\ config'.NoDelay = config.NoDelay
            /\ config'.Interval = config.Interval
            /\ config'.Resend = config.Resend
            /\ config'.NoCongestion = config.NoCongestion
       /\ \A s \in Sessions :
            s < nextId' =>
               /\ mainPc' # "init"
               /\ nodelay'[s] = <<config'.NoDelay, config'.Interval,
                                  config'.Resend, config'.NoCongestion>>
               /\ config'.Mode \in {"normal", "fast", "fast2", "fast3"} =>
                    nodelay'[s] = ProfileTuple(config'.Mode, <<>>)]_vars

(* mode fast2 with a manual tuple: both transports were dialed and got the
   profile's tuple *)
C18_Witness ==
    /\ config.Mode = "fast2"
    /\ nextId = 3
    /\ connes[0] = 1
    /\ connes[1] = 2
    /\ nodelay[1] = <<1, 20, 2, 1>>
    /\ nodelay[2] = <<1, 20, 2, 1>>

(* C19: in every state every slot has a session exactly when it has a
   transport; a slot that has them never loses them: a stale slot keeps
   its session and transport until the refill's assignment replaces both
   in one step, and nothing else writes a slot. *)
C19_SlotPairsStay ==
    [][\A i \in DOMAIN muxes :
          /\ (muxes[i].session # 0) <=> (connes[i] # 0)
          /\ (muxes'[i].session # 0) <=> (connes'[i] # 0)
          /\ muxes[i].session # 0 => muxes'[i].session # 0
          /\ connes[i] # 0 => connes'[i] # 0
          /\ (muxes'[i].session # muxes[i].session)
                <=> (connes'[i] # connes[i])
          /\ (muxes'[i] # muxes[i] \/ connes'[i] # connes[i])
                => (StoreStep /\ i = idx)]_vars

(* the slot was refilled once and is stale again: it still holds the
   second session and its transport while the FIFO reader visits it *)
C19_Witness ==
    /\ retired # {}
    /\ muxes[0].session # 0
    /\ connes[0] = muxes[0].session
    /\ IsStale(muxes[0])
    /\ accPc = "accept"
    /\ fifoPc = "setfec"
    /\ fifoAddr = 0

(* the sessions waiting in the channel or in the scavenger's list *)
Queued ==
    {chScavenger[k].session : k \in 1..Len(chScavenger)}
       \cup {sessionList[k].session : k \in 1..Len(sessionList)}

(* C20: with AutoExpire > 0 every session a refill has made is sent to the
   scavenger, once: the channel and the list together never hold a session
   twice, a session in a slot has been sent unless the acceptor is about to
   send it, and a session the scavenger has closed or dropped does not come
   back to it, so that the scavenger never calls Close on a session it has
   closed before.  In the end every session made has been sent, and every
   one whose window ends within the time modelled is closed and out of the
   channel and the list, for good. *)
C20_EverySessionScavenged ==
    /\ [](/\ Len(chScavenger) + Len(sessionList) = Cardinality(Queued)
          /\ Queued \cap scavClosed = {}
          /\ \A s \in Queued : handed[s].k >= 0
          /\ \A i \in DOMAIN muxes :
                muxes[i].session # 0 =>
                   \/ handed[muxes[i].session].k >= 0
                   \/ (accPc = "enqueue" /\ idx = i))
    /\ [][/\ \A s \in Sessions :
               (handed'[s] # handed[s]) =>
                   (handed[s].k = -1 /\ s \notin Queued /\ s \in Queued')
          /\ \A s \in Queued' \ Queued : handed[s].k = -1
          /\ \A s \in Queued \ Queued' : s \in closed'
          /\ \A s \in scavClosed' \ scavClosed :
               s \in Queued /\ s \notin Queued']_vars
    /\ <>[](\A s \in Sessions :
               s < nextId =>
                  /\ handed[s].k >= 0
                  /\ handed[s].expiryDate + config.ScavengeTTL < MaxTime
                        => (s \in closed /\ s \notin Queued))

(* two sessions were sent to the scavenger: the first closed itself and
   was dropped at a tick, the second was closed by the scavenger when its
   window had ended; channel and list are empty *)
C20_Witness ==
    /\ handed[1].k >= 0
    /\ handed[2].k >= 0
    /\ 1 \in closed \ scavClosed
    /\ 2 \in scavClosed
    /\ Queued = {}
    /\ scavPc = "loop"

====
